---------------------------- MODULE Spec2Model ----------------------------
(***************************************************************************)
(* Publish pipeline of SocialBoost: FacebookAutoPost.post_text,            *)
(* post_image and post_video (src/Automatizare_Completa/auto_post.py).     *)
(*                                                                         *)
(* One invocation of a publish operation is a small sequential process.    *)
(* Every HTTP call is one step: the step draws the outcome of the call     *)
(* (a response or an exception) from a finite set and then runs the code   *)
(* that follows the call up to the next call or to the return statement.   *)
(* calls and sleeps are history variables: the requests.* calls and the    *)
(* time.sleep calls made by the current invocation, in order.              *)
(***************************************************************************)
EXTENDS Integers, Sequences, FiniteSets, TLC

-----------------------------------------------------------------------------
(* Bounds of the model *)

\* largest video file, in bytes
MaxFileSize == 3
\* largest digit of a recorded timestamp
MaxDigit == 1
\* most paths in one list of the SelectionFile
MaxListed == 2
\* last day of the scheduler's calendar
MaxDay == 3

-----------------------------------------------------------------------------
(* Program constants *)

max_retries == 3
\* chunk_size = 4 * 1024 * 1024 in the source; the model counts the file in
\* units small enough that a file spans several chunks and a partial chunk
chunk_size == 2
max_checks == 10
check_interval == 5

RetryableStatus == {429, 500, 502, 503, 504}

ImageExtensions == {".jpg", ".jpeg", ".png", ".gif", ".bmp"}
VideoExtensions == {".mp4", ".mov", ".avi", ".wmv", ".mkv", ".flv", ".webm"}

-----------------------------------------------------------------------------
(* Values *)

None == "None"
Absent == "<absent>"
NoCode == 0 - 1

\* str: a message is a sequence of characters
Whitespace == {" ", "\t", "\n"}
Messages == { <<>>, <<" ">>, <<" ", "\n", "\t">>, <<" ", "a", " ">> }

RECURSIVE lstrip(_)
lstrip(s) == IF s # <<>> /\ Head(s) \in Whitespace THEN lstrip(Tail(s)) ELSE s

RECURSIVE rstrip(_)
rstrip(s) ==
    IF s # <<>> /\ s[Len(s)] \in Whitespace
    THEN rstrip(SubSeq(s, 1, Len(s) - 1))
    ELSE s

\* str.strip()
strip(s) == rstrip(lstrip(s))

\* the test "not message or not message.strip()" of the three operations
MessageIsEmptyMutant(m) == m = <<>>
MessageIsEmpty(m) == m = <<>> \/ strip(m) = <<>>

\* Path: what exists() / is_file() see, and the suffix of the name
PathStates == {"missing", "directory", "file"}
Suffixes == {".jpg", ".PNG", ".MOV", ".txt", ""}
Paths == [state : PathStates, suffix : Suffixes]

\* str.lower() on the suffixes of the model
lower(s) ==
    CASE s = ".PNG" -> ".png"
      [] s = ".MOV" -> ".mov"
      [] OTHER -> s

exists(p) == p.state # "missing"
is_file(p) == p.state = "file"


-----------------------------------------------------------------------------
(* Outcomes of an HTTP call: a response or an exception raised by requests *)

\* shape of a response body:
\*   "obj"         a JSON object whose "error" member, if any, is an object
\*   "objBadError" a JSON object whose "error" member is not an object
\*   "nonobj"      valid JSON that is not an object (a list, null, a string)
\*   "unparseable" not JSON: response.json() raises
Shapes == {"obj", "objBadError", "nonobj", "unparseable"}

Body(shape) ==
    [shape |-> shape, id |-> Absent, post_id |-> Absent, video_id |-> Absent,
     upload_session_id |-> Absent, start_offset |-> NoCode,
     success |-> Absent, status |-> Absent]

HttpResponse(code, body) == [exc |-> "none", status_code |-> code, body |-> body]

Raises(name) == [exc |-> name, status_code |-> NoCode, body |-> Body("obj")]

\* exceptions requests.post / requests.get raise themselves
RequestsExceptions == {"Timeout", "ConnectionError", "RequestException", "Exception"}

NonRetryableStatus == {201, 400}

PostIds == {"p1", "p2"}

TextResponses ==
    { HttpResponse(200, [Body("obj") EXCEPT !.id = i]) : i \in PostIds \cup {Absent} }
      \cup { HttpResponse(200, Body(s)) : s \in {"nonobj", "unparseable"} }
      \cup { HttpResponse(c, Body("obj")) : c \in RetryableStatus }
      \cup { HttpResponse(c, Body(s)) : c \in NonRetryableStatus, s \in Shapes }
      \cup { Raises(e) : e \in RequestsExceptions }

-----------------------------------------------------------------------------
(* State *)

VARIABLES
    requests_json_error,  \* build: response.json() raises requests.exceptions.JSONDecodeError,
                          \* a RequestException (requests >= 2.27), else a plain ValueError
    has_simplejson,       \* build: simplejson is installed, so the JSON error raised is
                          \* simplejson's and not an instance of json.JSONDecodeError
    op,                   \* the operation invoked: post_text, post_image or post_video
    pc,                   \* position of the invocation
    message,              \* argument of the operation
    path,                 \* image_path / video_path argument
    attempt,              \* loop variable of post_text
    file_size,            \* post_video: video_path.stat().st_size
    video_id,             \* post_video: start_data.get('video_id')
    upload_session_id,    \* post_video: start_data.get('upload_session_id')
    current_offset,       \* post_video: offset of the transfer loop
    file_pos,             \* post_video: read position of video_file
    check_num,            \* post_video: loop variable of the status poll
    response,             \* outcome of the last HTTP call
    calls,                \* history: the HTTP calls of this invocation
    sleeps,               \* history: the time.sleep calls of this invocation
    result,               \* the returned dict, once pc = "done"
    media,                \* selector: the media files on disk, in enumeration order
    tracking_file,        \* the Tracking Store file
    selector_pc,          \* selector: position of the get_assets_to_post call
    assets,               \* selector: the list get_assets_to_post returned
    selection_file,       \* the SelectionFile (selected_assets.json)
    parent_dir,           \* the directory of the Tracking Store file exists
    store_pc,             \* Tracking Store: position of the caller
    saved,                \* Tracking Store: the save_asset_tracking call made
    loaded,               \* Tracking Store: the load_asset_tracking call made
    cycle,                \* publish cycle: the state of each running process
    clock,                \* publish cycle: the time, as the number of the next timestamp
    history,              \* publish cycle: the publish calls that returned, in order
    schedule_file,        \* scheduler: Config/schedule.json
    sched_pc,             \* scheduler: the process is stopped or in its loop
    jobs,                 \* scheduler: the job dicts of the running process
    registered,           \* scheduler: the jobs registered with the schedule library
    now,                  \* scheduler: the day
    runs,                 \* scheduler: the task runs started so far, in order
    orch_pc,              \* orchestrator: position of the execute_command call
    command,              \* orchestrator: the command executed
    mode,                 \* orchestrator: the mode keyword argument
    cmd_result,           \* orchestrator: the value the command function returned
    exit_code,            \* orchestrator: the value execute_command returned
    context               \* orchestrator: self.context, as saved in PROJECT_CONTEXT.json

vars == <<requests_json_error, has_simplejson, op, pc, message, path, attempt,
          file_size, video_id, upload_session_id, current_offset, file_pos,
          check_num, response, calls, sleeps, result,
          media, tracking_file, selector_pc, assets, selection_file,
          parent_dir, store_pc, saved, loaded, cycle, clock, history,
          schedule_file, sched_pc, jobs, registered, now, runs,
          orch_pc, command, mode, cmd_result, exit_code, context>>

selector_vars == <<media, tracking_file, selector_pc, assets, selection_file>>
store_vars == <<parent_dir, store_pc, saved, loaded>>
cycle_vars == <<cycle, clock, history>>
scheduler_vars == <<schedule_file, sched_pc, jobs, registered, now, runs>>
orchestrator_vars == <<orch_pc, command, mode, cmd_result, exit_code, context>>
\* the state of the programs beside the publish pipeline
side_vars == <<scheduler_vars, orchestrator_vars>>
\* what a publish operation leaves alone
other_vars == <<selector_vars, store_vars, cycle_vars, side_vars>>
build == <<requests_json_error, has_simplejson>>
video_locals == <<file_size, video_id, upload_session_id, current_offset,
                  file_pos, check_num>>
publish_vars == <<op, pc, message, path, attempt, video_locals, response,
                  calls, sleeps, result>>
\* what the selector leaves alone
non_selector_vars == <<build, publish_vars, store_vars, cycle_vars, side_vars>>

NoPath == [state |-> "missing", suffix |-> ""]
NoResponse == Raises("none")

\* the returned dict; a key the dict does not have is Absent / NoCode
Result(status, error) ==
    [status |-> status, error |-> error, post_id |-> Absent,
     status_code |-> NoCode, video_id |-> Absent, file_size |-> NoCode]

NoResult == Result("none", [msg |-> "", attempts |-> NoCode, status |-> NoCode])

\* error strings; the interpolated values are kept beside the text
Error(msg) == [msg |-> msg, attempts |-> NoCode, status |-> NoCode]
ErrorAfterAttemptsMutant(n, code) ==
    [msg |-> "API call failed after {max_retries} attempts. Status: {status_code}",
     attempts |-> n, status |-> NoCode]
ErrorAfterAttempts(n, code) ==
    [msg |-> "API call failed after {max_retries} attempts. Status: {status_code}",
     attempts |-> n, status |-> code]

Failed(msg) == Result("failed", Error(msg))

\* a call as the history records it
Call(phase, r, offset, pos, len) ==
    [phase |-> phase, resp |-> r, start_offset |-> offset, pos |-> pos, len |-> len]

\* a sleep as the history records it: after how many calls, for how long
Sleep(secs) == [after |-> Len(calls) + 1, secs |-> secs]

\* no invocation of a publish operation is running
PublishIdle ==
    /\ op = "none"
    /\ pc = "idle"
    /\ message = <<>>
    /\ path = NoPath
    /\ attempt = 0
    /\ file_size = 0
    /\ video_id = None
    /\ upload_session_id = None
    /\ current_offset = 0
    /\ file_pos = 0
    /\ check_num = 0
    /\ response = NoResponse
    /\ calls = <<>>
    /\ sleeps = <<>>
    /\ result = NoResult

\* last_posted timestamps: ISO-8601 strings, here strings of two digits
Stamps == [1 .. 2 -> 0 .. MaxDigit]
NoStamp == <<>>

\* the media files of the project, by their path relative to the project root
AssetKeys == {"Assets/Images/a.jpg", "Assets/Images/b.png", "Assets/Videos/c.mp4"}

\* the Tracking Store file: missing, not JSON, or a JSON document that maps
\* relative paths to records {last_posted}; NoStamp stands for a path
\* without a key
TrackingMaps == [AssetKeys -> Stamps \cup {NoStamp}]
EmptyTracking == [k \in AssetKeys |-> NoStamp]
TrackingFile(state, data) == [state |-> state, data |-> data]
NoTrackingFile == TrackingFile("missing", EmptyTracking)

\* the SelectionFile: missing, not JSON, or {images: [...], videos: [...]}
SelectionFile(state, images, videos) ==
    [state |-> state, images |-> images, videos |-> videos]
NoSelectionFile == SelectionFile("missing", <<>>, <<>>)

\* the selector is not in use
SelectorIdle ==
    /\ media = <<>>
    /\ tracking_file = NoTrackingFile
    /\ selector_pc = "idle"
    /\ assets = <<>>
    /\ selection_file = NoSelectionFile

\* a call of the Tracking Store that was not made
NoSave == [data |-> EmptyTracking, outcome |-> "none", mkdir_called |-> FALSE,
           raised |-> FALSE]
NoLoad == [returned |-> EmptyTracking, json_load_called |-> FALSE, raised |-> FALSE]

\* the Tracking Store is not in use
StoreIdle ==
    /\ store_pc = "idle"
    /\ saved = NoSave
    /\ loaded = NoLoad

\* Config/schedule.json: missing, not JSON, or {jobs: [...]}
ScheduleFile(state, list) == [state |-> state, jobs |-> list]

\* the scheduler does not run
SchedulerIdle ==
    /\ schedule_file = ScheduleFile("missing", <<>>)
    /\ sched_pc = "stopped"
    /\ jobs = <<>>
    /\ registered = {}
    /\ now = 0
    /\ runs = <<>>

\* a value a command function returns: a bool or an int
PyBool(b) == [kind |-> "bool", b |-> b, n |-> 0]
PyInt(n) == [kind |-> "int", b |-> FALSE, n |-> n]
NoContext == [last_exit_code |-> NoCode, last_operation |-> ""]

\* no command is being executed
OrchestratorCallIdle ==
    /\ orch_pc = "idle"
    /\ command = ""
    /\ mode = ""
    /\ cmd_result = PyInt(0)
    /\ exit_code = NoCode

\* the orchestrator does not run
OrchestratorIdle ==
    /\ OrchestratorCallIdle
    /\ context = NoContext

\* the programs beside the publish pipeline do not run
SideIdle == SchedulerIdle /\ OrchestratorIdle

\* the processes that can run a publish cycle at the same time
Procs == {1, 2}
NoAsset == [root |-> "", rel |-> ""]
CycleState(at, asset, status, tracking, stamp) ==
    [pc |-> at, asset |-> asset, status |-> status, tracking |-> tracking,
     stamp |-> stamp]
CycleOff == CycleState("off", NoAsset, "none", EmptyTracking, NoStamp)
CycleStart == CycleState("select", NoAsset, "none", EmptyTracking, NoStamp)

\* no publish cycle is running
CycleIdle ==
    /\ cycle = [p \in Procs |-> CycleOff]
    /\ clock = 0
    /\ history = <<>>

Init ==
    /\ requests_json_error \in BOOLEAN
    /\ has_simplejson \in BOOLEAN
    /\ PublishIdle
    /\ SelectorIdle
    /\ parent_dir = FALSE
    /\ StoreIdle
    /\ SideIdle
    /\ CycleIdle

-----------------------------------------------------------------------------
(* Exceptions *)

\* response.json(): the exception it raises on the body, or "none"
json(body) == IF body.shape = "unparseable" THEN "JSONDecodeError" ELSE "none"

\* isinstance(e, requests.exceptions.RequestException)
IsRequestException(e) ==
    \/ e \in {"Timeout", "ConnectionError", "RequestException"}
    \/ e = "JSONDecodeError" /\ requests_json_error

\* isinstance(e, json.JSONDecodeError)
IsJsonDecodeError(e) == e = "JSONDecodeError" /\ ~has_simplejson

\* a variant of TextExceptClause without the Timeout clause's retry
TextExceptClauseMutant(e) ==
    CASE e = "Timeout" -> "Exception"
      [] e = "ConnectionError" -> "ConnectionError"
      [] e \notin {"Timeout", "ConnectionError"} /\ IsRequestException(e) -> "RequestException"
      [] OTHER -> "Exception"

\* the except clause of post_text that handles e
TextExceptClause(e) ==
    CASE e = "Timeout" -> "Timeout"
      [] e = "ConnectionError" -> "ConnectionError"
      [] e \notin {"Timeout", "ConnectionError"} /\ IsRequestException(e) -> "RequestException"
      [] OTHER -> "Exception"

\* error_data.get('error', {}).get('message', error_text) inside
\* try / except json.JSONDecodeError: the exception that escapes, or "none"
ErrorMessageRaises(body) ==
    CASE body.shape = "unparseable" ->
            IF IsJsonDecodeError("JSONDecodeError") THEN "none" ELSE "JSONDecodeError"
      [] body.shape \in {"nonobj", "objBadError"} -> "AttributeError"
      [] OTHER -> "none"

\* response_data.get(key) on a parsed 200 body: the exception, or "none"
GetRaises(body) ==
    CASE body.shape = "unparseable" -> json(body)
      [] body.shape = "nonobj" -> "AttributeError"
      [] OTHER -> "none"

\* dict.get: an absent key gives the default
Get(value, default) == IF value = Absent THEN default ELSE value

RECURSIVE Pow2(_)
Pow2(n) == IF n = 0 THEN 1 ELSE 2 * Pow2(n - 1)

-----------------------------------------------------------------------------
(* post_text *)

\* response.status_code in [429, 500, 502, 503, 504]
IsRetryable(code) == code \in RetryableStatus

\* attempt < max_retries - 1
ShouldRetryMutant(att) == att < max_retries
ShouldRetry(att) == att < max_retries - 1

\* wait_time = 2 ** attempt
wait_timeMutant(att) == 2 * att
wait_time(att) == Pow2(att)

\* the exception raised inside the try block of one attempt, or "none"
TextTryRaises(r) ==
    IF r.exc # "none" THEN r.exc
    ELSE IF r.status_code = 200 THEN GetRaises(r.body)
    ELSE IF IsRetryable(r.status_code) THEN "none"
    ELSE ErrorMessageRaises(r.body)

\* the dict returned when the retries of an except clause are used up
TextExhausted(clause) ==
    CASE clause = "Timeout" -> Failed("Request timed out")
      [] clause = "ConnectionError" -> Failed("Connection error")
      [] OTHER -> Failed("Request error: {e}")

\* the success dict of post_text
TextSuccessMutant(body) ==
    [Result("success", Error("")) EXCEPT !.post_id = None]
TextSuccess(body) ==
    [Result("success", Error("")) EXCEPT !.post_id = Get(body.id, None)]

\* one iteration of "for attempt in range(max_retries)" on the outcome r of
\* requests.post: either continue (after sleeping) or return a dict
TextAttempt(att, r) ==
    LET e == TextTryRaises(r)
        retry == [continue |-> TRUE, sleep |-> wait_time(att), result |-> NoResult]
        return(d) == [continue |-> FALSE, sleep |-> NoCode, result |-> d]
    IN  IF e = "none"
        THEN IF r.status_code = 200
             THEN return(TextSuccess(r.body))
             ELSE IF IsRetryable(r.status_code)
             THEN IF ShouldRetry(att)
                  THEN retry
                  ELSE return(Result("failed", ErrorAfterAttempts(max_retries, r.status_code)))
             ELSE return([Failed("{error_message}") EXCEPT !.status_code = r.status_code])
        ELSE IF TextExceptClause(e) = "Exception"
             THEN return(Failed("Unexpected error: {e}"))
             ELSE IF ShouldRetry(att)
                  THEN retry
                  ELSE return(TextExhausted(TextExceptClause(e)))

\* post_text(message) up to the first HTTP call
post_text(m) ==
    /\ pc = "idle"
    /\ op' = "post_text"
    /\ message' = m
    /\ path' = NoPath
    /\ attempt' = 0
    /\ calls' = <<>>
    /\ sleeps' = <<>>
    /\ response' = NoResponse
    /\ IF MessageIsEmpty(m)
       THEN /\ pc' = "done"
            /\ result' = Failed("Message cannot be empty")
       ELSE /\ pc' = "text_call"
            /\ result' = NoResult
    /\ UNCHANGED <<other_vars, build, video_locals>>

\* requests.post(url, params=params, timeout=30) of the current attempt and
\* the code that handles its outcome
post_text_call(r) ==
    /\ pc = "text_call"
    /\ LET step == TextAttempt(attempt, r)
       IN  /\ calls' = Append(calls, Call("text", r, NoCode, NoCode, NoCode))
           /\ response' = r
           /\ IF step.continue
              THEN /\ sleeps' = Append(sleeps, Sleep(step.sleep))
                   /\ attempt' = attempt + 1
                   /\ IF attempt + 1 < max_retries
                      THEN /\ pc' = "text_call"
                           /\ result' = NoResult
                      ELSE /\ pc' = "done"
                           /\ result' = Failed("Unexpected error in retry logic")
              ELSE /\ sleeps' = sleeps
                   /\ attempt' = attempt
                   /\ pc' = "done"
                   /\ result' = step.result
    /\ UNCHANGED <<other_vars, build, op, message, path, video_locals>>

-----------------------------------------------------------------------------
(* Validation shared by post_image and post_video *)

\* variants of Validate with the checks in another order
ValidateSuffixFirst(m, p, kind, valid_extensions) ==
    IF MessageIsEmpty(m) THEN "Message cannot be empty"
    ELSE IF lower(p.suffix) \notin valid_extensions
         THEN "Unsupported " \o kind \o " format: {suffix}"
    ELSE IF ~exists(p) \/ ~is_file(p)
         THEN (IF kind = "image" THEN "Image" ELSE "Video") \o " file not found or invalid"
    ELSE ""
ValidateFileFirst(m, p, kind, valid_extensions) ==
    IF ~exists(p) \/ ~is_file(p)
    THEN (IF kind = "image" THEN "Image" ELSE "Video") \o " file not found or invalid"
    ELSE IF MessageIsEmpty(m) THEN "Message cannot be empty"
    ELSE IF lower(p.suffix) \notin valid_extensions
         THEN "Unsupported " \o kind \o " format: {suffix}"
    ELSE ""

\* the checks before the first HTTP call, in the order of the source: the
\* message, then exists() / is_file(), then the suffix; "" when all pass
Validate(m, p, kind, valid_extensions) ==
    IF MessageIsEmpty(m) THEN "Message cannot be empty"
    ELSE IF ~exists(p) \/ ~is_file(p)
         THEN (IF kind = "image" THEN "Image" ELSE "Video") \o " file not found or invalid"
    ELSE IF lower(p.suffix) \notin valid_extensions
         THEN "Unsupported " \o kind \o " format: {suffix}"
    ELSE ""

-----------------------------------------------------------------------------
(* post_image *)

ImageResponses ==
    { HttpResponse(200, [Body("obj") EXCEPT !.id = "p1"]),
      HttpResponse(200, [Body("obj") EXCEPT !.post_id = "p2"]),
      HttpResponse(200, Body("obj")) }
      \cup { HttpResponse(200, Body(s)) : s \in {"nonobj", "unparseable"} }
      \cup { HttpResponse(c, Body(s)) : c \in {400, 500}, s \in Shapes }
      \cup { Raises(e) : e \in RequestsExceptions }

\* outcomes of open(path, 'rb') after the path passed validation
OpenOutcomes == {"ok", "FileNotFoundError", "PermissionError"}

\* the except clause of post_image / post_video that handles e
MediaExceptClause(e) ==
    CASE e = "Timeout" -> "Timeout"
      [] e = "ConnectionError" -> "ConnectionError"
      [] e \notin {"Timeout", "ConnectionError"} /\ IsRequestException(e) -> "RequestException"
      [] e = "FileNotFoundError" -> "FileNotFoundError"
      [] OTHER -> "Exception"

\* the dict an except clause of post_image / post_video returns
MediaFailed(clause, kind) ==
    CASE clause = "Timeout" ->
            Failed(IF kind = "image" THEN "Request timed out (image upload)"
                                     ELSE "Request timed out")
      [] clause = "ConnectionError" -> Failed("Connection error")
      [] clause = "RequestException" -> Failed("Request error: {e}")
      [] clause = "FileNotFoundError" ->
            Failed(IF kind = "image" THEN "Image file not found" ELSE "Video file not found")
      [] OTHER -> Failed("Unexpected error: {e}")

\* the exception raised inside the try block of post_image, or "none"
ImageTryRaises(r) ==
    IF r.exc # "none" THEN r.exc
    ELSE IF r.status_code = 200 THEN GetRaises(r.body)
    ELSE ErrorMessageRaises(r.body)

\* response_data.get('id') or response_data.get('post_id')
ImagePostId(body) ==
    IF Get(body.id, None) # None THEN body.id ELSE Get(body.post_id, None)

\* post_image(message, image_path) up to the opening of the file
post_image(m, p) ==
    /\ pc = "idle"
    /\ op' = "post_image"
    /\ message' = m
    /\ path' = p
    /\ calls' = <<>>
    /\ sleeps' = <<>>
    /\ response' = NoResponse
    /\ LET error == Validate(m, p, "image", ImageExtensions)
       IN  IF error # ""
           THEN /\ pc' = "done"
                /\ result' = Failed(error)
           ELSE /\ pc' = "image_call"
                /\ result' = NoResult
    /\ UNCHANGED <<other_vars, build, attempt, video_locals>>

\* open(image_path, 'rb') failed: no request is sent
post_image_open_fails(o) ==
    /\ pc = "image_call"
    /\ o # "ok"
    /\ pc' = "done"
    /\ result' = MediaFailed(MediaExceptClause(o), "image")
    /\ UNCHANGED <<other_vars, build, op, message, path, attempt, video_locals, response, calls, sleeps>>

\* requests.post(url, data=payload, files=files, timeout=120) and the code
\* that handles its outcome
post_image_call(r) ==
    /\ pc = "image_call"
    /\ calls' = Append(calls, Call("image", r, NoCode, NoCode, NoCode))
    /\ response' = r
    /\ pc' = "done"
    /\ LET e == ImageTryRaises(r)
       IN  result' =
             IF e # "none" THEN MediaFailed(MediaExceptClause(e), "image")
             ELSE IF r.status_code = 200
                  THEN [Result("success", Error("")) EXCEPT !.post_id = ImagePostId(r.body)]
                  ELSE [Failed("{error_message}") EXCEPT !.status_code = r.status_code]
    /\ UNCHANGED <<other_vars, build, op, message, path, attempt, video_locals, sleeps>>

-----------------------------------------------------------------------------
(* post_video *)

\* offsets the server may report; NoCode stands for a body without the key
ServerOffsets == 0 .. MaxFileSize
FileSizes == 0 .. MaxFileSize

StartResponses ==
    { HttpResponse(200, [Body("obj") EXCEPT !.video_id = "v1",
                                            !.upload_session_id = "s1",
                                            !.start_offset = o]) :
          o \in ServerOffsets \cup {NoCode} }
      \cup { HttpResponse(200, Body(s)) : s \in {"obj", "nonobj", "unparseable"} }
      \cup { HttpResponse(400, Body(s)) : s \in Shapes }
      \cup { Raises(e) : e \in RequestsExceptions }

TransferResponses ==
    { HttpResponse(200, [Body("obj") EXCEPT !.start_offset = o]) :
          o \in ServerOffsets \cup {NoCode} }
      \cup { HttpResponse(200, Body(s)) : s \in {"nonobj", "unparseable"} }
      \cup { HttpResponse(400, Body(s)) : s \in Shapes }
      \cup { Raises(e) : e \in RequestsExceptions }

FinishResponses ==
    { HttpResponse(200, [Body("obj") EXCEPT !.success = v]) :
          v \in {"true", "false", Absent} }
      \cup { HttpResponse(200, Body(s)) : s \in {"nonobj", "unparseable"} }
      \cup { HttpResponse(400, Body(s)) : s \in Shapes }
      \cup { Raises(e) : e \in RequestsExceptions }

PollResponses ==
    { HttpResponse(200, [Body("obj") EXCEPT !.status = v]) :
          v \in {"ready", "failed", "processing", Absent} }
      \cup { HttpResponse(200, Body(s)) : s \in {"nonobj", "unparseable"} }
      \cup { HttpResponse(500, Body("obj")) }
      \cup { Raises(e) : e \in RequestsExceptions }

Min(a, b) == IF a < b THEN a ELSE b

\* len(video_file.read(chunk_size)) at read position pos of a file of size bytes
ChunkLen(pos, size) == Min(chunk_size, size - pos)

\* the test "response.status_code != 200" after a start / transfer / finish call
PhaseFailedMutant(r) == r.status_code >= 500
PhaseFailed(r) == r.status_code # 200

\* the exception raised by the code that handles a start / transfer / finish
\* response, or "none"
PhaseTryRaises(r) ==
    IF r.exc # "none" THEN r.exc
    ELSE IF PhaseFailed(r) THEN ErrorMessageRaises(r.body)
    ELSE GetRaises(r.body)

\* "while current_offset < file_size" followed by "if not chunk_data: break":
\* the loop sends another chunk
LoopContinuesNoBreak(offset, pos, size) == offset < size
LoopContinuesMutant(offset, pos, size) == offset + 1 < size /\ ChunkLen(pos, size) > 0
LoopContinues(offset, pos, size) == offset < size /\ ChunkLen(pos, size) > 0

\* start_data.get('start_offset', 0)
StartOffset(body) == IF body.start_offset = NoCode THEN 0 ELSE body.start_offset

\* transfer_data.get('start_offset', current_offset + len(chunk_data))
NewOffset(body, offset, len) ==
    IF body.start_offset = NoCode THEN offset + len ELSE body.start_offset

\* the test "if not success" on finish_data.get('success', False)
FinishFailedMutant(body) == Get(body.success, "true") # "true"
FinishFailed(body) == Get(body.success, "false") # "true"

\* the dict returned after the status poll
VideoSuccess == [Result("success", Error("")) EXCEPT !.video_id = video_id,
                                                      !.file_size = file_size]

\* post_video(message, video_path) up to the start call; size is the size of
\* the file and stat the outcome of video_path.stat()
post_video(m, p, size, stat) ==
    /\ pc = "idle"
    /\ op' = "post_video"
    /\ message' = m
    /\ path' = p
    /\ calls' = <<>>
    /\ sleeps' = <<>>
    /\ response' = NoResponse
    /\ video_id' = None
    /\ upload_session_id' = None
    /\ current_offset' = 0
    /\ file_pos' = 0
    /\ check_num' = 0
    /\ LET error == Validate(m, p, "video", VideoExtensions)
       IN  IF error # ""
           THEN /\ pc' = "done"
                /\ result' = Failed(error)
                /\ file_size' = 0
           ELSE IF stat # "ok"
           THEN /\ pc' = "done"
                /\ result' = Failed("Could not get file size: {e}")
                /\ file_size' = 0
           ELSE /\ pc' = "video_start"
                /\ result' = NoResult
                /\ file_size' = size
    /\ UNCHANGED <<other_vars, build, attempt>>

\* requests.post(url, data=start_params, timeout=30), the code that handles
\* its outcome, open(video_path, 'rb') with outcome o and the first test of
\* the transfer loop
post_video_start(r, o) ==
    /\ pc = "video_start"
    /\ calls' = Append(calls, Call("start", r, NoCode, NoCode, NoCode))
    /\ response' = r
    /\ LET e == PhaseTryRaises(r)
       IN  IF e # "none"
           THEN /\ pc' = "done"
                /\ result' = MediaFailed(MediaExceptClause(e), "video")
                /\ UNCHANGED <<video_id, upload_session_id, current_offset>>
           ELSE IF PhaseFailed(r)
           THEN /\ pc' = "done"
                /\ result' = Failed("Start upload failed: {error_message}")
                /\ UNCHANGED <<video_id, upload_session_id, current_offset>>
           ELSE /\ video_id' = Get(r.body.video_id, None)
                /\ upload_session_id' = Get(r.body.upload_session_id, None)
                /\ current_offset' = StartOffset(r.body)
                /\ IF o # "ok"
                   THEN /\ pc' = "done"
                        /\ result' = MediaFailed(MediaExceptClause(o), "video")
                   ELSE /\ result' = NoResult
                        /\ pc' = IF LoopContinues(StartOffset(r.body), 0, file_size)
                                 THEN "video_transfer" ELSE "video_finish"
    /\ UNCHANGED <<other_vars, build, op, message, path, attempt, file_size, file_pos, check_num, sleeps>>

\* one iteration of the transfer loop: video_file.read(chunk_size),
\* requests.post(url, data=transfer_params, files=files, timeout=120), the
\* code that handles its outcome and the next test of the loop
post_video_transfer(r) ==
    /\ pc = "video_transfer"
    /\ LET len == ChunkLen(file_pos, file_size)
           e == PhaseTryRaises(r)
           new_offset == NewOffset(r.body, current_offset, len)
       IN  /\ calls' = Append(calls, Call("transfer", r, current_offset, file_pos, len))
           /\ file_pos' = file_pos + len
           /\ IF e # "none"
              THEN /\ pc' = "done"
                   /\ result' = MediaFailed(MediaExceptClause(e), "video")
                   /\ UNCHANGED current_offset
              ELSE IF PhaseFailed(r)
              THEN /\ pc' = "done"
                   /\ result' = Failed("Transfer failed: {error_message}")
                   /\ UNCHANGED current_offset
              ELSE /\ current_offset' = new_offset
                   /\ result' = NoResult
                   /\ pc' = IF LoopContinues(new_offset, file_pos + len, file_size)
                            THEN "video_transfer" ELSE "video_finish"
    /\ response' = r
    /\ UNCHANGED <<other_vars, build, op, message, path, attempt, file_size, video_id,
                   upload_session_id, check_num, sleeps>>

\* requests.post(url, data=finish_params, timeout=30) and the code that
\* handles its outcome
post_video_finish(r) ==
    /\ pc = "video_finish"
    /\ calls' = Append(calls, Call("finish", r, NoCode, NoCode, NoCode))
    /\ response' = r
    /\ LET e == PhaseTryRaises(r)
       IN  IF e # "none"
           THEN /\ pc' = "done"
                /\ result' = MediaFailed(MediaExceptClause(e), "video")
           ELSE IF PhaseFailed(r)
           THEN /\ pc' = "done"
                /\ result' = Failed("Finish upload failed: {error_message}")
           ELSE IF FinishFailed(r.body)
           THEN /\ pc' = "done"
                /\ result' = Failed("Upload finish failed")
           ELSE /\ pc' = "video_poll"
                /\ result' = NoResult
    /\ check_num' = 0
    /\ UNCHANGED <<other_vars, build, op, message, path, attempt, file_size, video_id,
                   upload_session_id, current_offset, file_pos, sleeps>>

\* the exception raised by the code that handles a status response, or "none"
PollTryRaises(r) ==
    IF r.exc # "none" THEN r.exc
    ELSE IF r.status_code = 200 THEN GetRaises(r.body)
    ELSE "none"

\* the status response ends the poll loop: video_status is ready or failed
PollBreaks(r) ==
    /\ r.status_code = 200
    /\ Get(r.body.status, "unknown") \in {"ready", "failed"}

\* the test "check_num < max_checks - 1" before time.sleep(check_interval)
PollSleepsMutant(n) == n < max_checks
PollSleeps(n) == n < max_checks - 1

\* one iteration of "for check_num in range(max_checks)":
\* requests.get(status_url, params=status_params, timeout=30), the code that
\* handles its outcome and the sleep before the next check
post_video_poll(r) ==
    /\ pc = "video_poll"
    /\ calls' = Append(calls, Call("poll", NoResponse, NoCode, NoCode, NoCode))
    /\ response' = r
    /\ LET e == PollTryRaises(r)
       IN  IF e # "none"
           THEN /\ pc' = "done"
                /\ result' = MediaFailed(MediaExceptClause(e), "video")
                /\ UNCHANGED <<check_num, sleeps>>
           ELSE IF PollBreaks(r)
           THEN /\ pc' = "done"
                /\ result' = VideoSuccess
                /\ UNCHANGED <<check_num, sleeps>>
           ELSE /\ sleeps' = IF PollSleeps(check_num)
                             THEN Append(sleeps, Sleep(check_interval))
                             ELSE sleeps
                /\ check_num' = check_num + 1
                /\ IF check_num + 1 < max_checks
                   THEN /\ pc' = "video_poll"
                        /\ result' = NoResult
                   ELSE /\ pc' = "done"
                        /\ result' = VideoSuccess
    /\ UNCHANGED <<other_vars, build, op, message, path, attempt, file_size, video_id,
                   upload_session_id, current_offset, file_pos>>

-----------------------------------------------------------------------------
\* the caller takes the returned dict; the next invocation starts afresh
Return ==
    /\ pc = "done"
    /\ pc' = "idle"
    /\ op' = "none"
    /\ message' = <<>>
    /\ path' = NoPath
    /\ attempt' = 0
    /\ file_size' = 0
    /\ video_id' = None
    /\ upload_session_id' = None
    /\ current_offset' = 0
    /\ file_pos' = 0
    /\ check_num' = 0
    /\ response' = NoResponse
    /\ calls' = <<>>
    /\ sleeps' = <<>>
    /\ result' = NoResult
    /\ UNCHANGED <<other_vars, build>>

Next ==
    \/ \E m \in Messages : post_text(m)
    \/ \E r \in TextResponses : post_text_call(r)
    \/ \E m \in Messages, p \in Paths : post_image(m, p)
    \/ \E o \in OpenOutcomes : post_image_open_fails(o)
    \/ \E r \in ImageResponses : post_image_call(r)
    \/ \E m \in Messages, p \in Paths, size \in FileSizes, stat \in {"ok", "OSError"} :
          post_video(m, p, size, stat)
    \/ \E r \in StartResponses, o \in OpenOutcomes : post_video_start(r, o)
    \/ \E r \in TransferResponses : post_video_transfer(r)
    \/ \E r \in FinishResponses : post_video_finish(r)
    \/ \E r \in PollResponses : post_video_poll(r)
    \/ Return

Spec == Init /\ [][Next]_vars

-----------------------------------------------------------------------------
(* Asset rotation selector: get_assets_to_post(selected_only=False) over   *)
(* the Tracking Store (load_asset_tracking)                                *)

PROJECT_ROOT == "<project root>"

\* the absolute path of a media file, and its path relative to a root
\* (Path.relative_to: the path without the root it starts with)
AssetPath(key) == [root |-> PROJECT_ROOT, rel |-> key]
relative_to(p, root) == IF p.root = root THEN p.rel ELSE Raises("ValueError")

Range(seq) == {seq[i] : i \in DOMAIN seq}

\* what the enumeration of the two media roots can give: the files present,
\* each once, in the order the file system lists them
MediaPools ==
    {pool \in UNION {[1 .. n -> {AssetPath(k) : k \in AssetKeys}] :
                        n \in 0 .. Cardinality(AssetKeys)} :
        \A i, j \in DOMAIN pool : i # j => pool[i] # pool[j]}

TrackingFiles ==
    {TrackingFile("missing", EmptyTracking), TrackingFile("malformed", EmptyTracking)}
        \cup {TrackingFile("ok", data) : data \in TrackingMaps}

\* load: a missing file or malformed JSON gives the empty map
load_asset_tracking ==
    IF tracking_file.state = "ok" THEN tracking_file.data ELSE EmptyTracking

\* Python's order of strings: the first differing character decides, and a
\* proper prefix is smaller
StringLess(a, b) ==
    \/ \E i \in (DOMAIN a) \cap (DOMAIN b) :
            /\ a[i] < b[i]
            /\ \A j \in 1 .. (i - 1) : a[j] = b[j]
    \/ /\ Len(a) < Len(b)
       /\ \A j \in DOMAIN a : a[j] = b[j]

\* the never-posted and the posted files of the pool, in enumeration order
NeverPosted(pool, tracking) ==
    SelectSeq(pool, LAMBDA p : tracking[relative_to(p, PROJECT_ROOT)] = NoStamp)
Posted(pool, tracking) ==
    SelectSeq(pool, LAMBDA p : tracking[relative_to(p, PROJECT_ROOT)] # NoStamp)

last_posted(p, tracking) == tracking[relative_to(p, PROJECT_ROOT)]

\* the file posted last is taken for the oldest
Newest(posted, tracking) ==
    LET i == CHOOSE k \in DOMAIN posted :
                 \A j \in DOMAIN posted :
                     /\ ~ StringLess(last_posted(posted[k], tracking),
                                     last_posted(posted[j], tracking))
                     /\ j < k => StringLess(last_posted(posted[j], tracking),
                                            last_posted(posted[k], tracking))
    IN  posted[i]
\* the oldest is the last file with the smallest last_posted
OldestMutant(posted, tracking) ==
    LET i == CHOOSE k \in DOMAIN posted :
                 \A j \in DOMAIN posted :
                     /\ ~ StringLess(last_posted(posted[j], tracking),
                                     last_posted(posted[k], tracking))
                     /\ j > k => StringLess(last_posted(posted[k], tracking),
                                            last_posted(posted[j], tracking))
    IN  posted[i]
\* the posted file with the smallest last_posted, the first of them in
\* enumeration order
Oldest(posted, tracking) ==
    LET i == CHOOSE k \in DOMAIN posted :
                 \A j \in DOMAIN posted :
                     /\ ~ StringLess(last_posted(posted[j], tracking),
                                     last_posted(posted[k], tracking))
                     /\ j < k => StringLess(last_posted(posted[k], tracking),
                                            last_posted(posted[j], tracking))
    IN  posted[i]

\* the oldest posted file is preferred to a never-posted one
RotationPostedFirst(pool, tracking) ==
    LET never == NeverPosted(pool, tracking)
        posted == Posted(pool, tracking)
    IN  IF posted # <<>> THEN {<<Oldest(posted, tracking)>>}
        ELSE IF never # <<>> THEN {<<never[i]>> : i \in DOMAIN never}
        ELSE {<<>>}
\* every never-posted file is returned
RotationAll(pool, tracking) ==
    LET never == NeverPosted(pool, tracking)
        posted == Posted(pool, tracking)
    IN  IF never # <<>> THEN {never}
        ELSE IF posted # <<>> THEN {<<Oldest(posted, tracking)>>}
        ELSE {<<>>}
\* the lists Mode B may return: one never-posted file (any one) if there is
\* one, else the oldest posted file, else the empty list
Rotation(pool, tracking) ==
    LET never == NeverPosted(pool, tracking)
        posted == Posted(pool, tracking)
    IN  IF never # <<>> THEN {<<never[i]>> : i \in DOMAIN never}
        ELSE IF posted # <<>> THEN {<<Oldest(posted, tracking)>>}
        ELSE {<<>>}

\* get_assets_to_post(selected_only=False): enumerate, load, select
get_assets_to_post ==
    /\ selector_pc = "idle"
    /\ \E list \in Rotation(media, load_asset_tracking) : assets' = list
    /\ selector_pc' = "returned"
    /\ UNCHANGED <<media, tracking_file, selection_file>>
    /\ UNCHANGED non_selector_vars

\* the caller is done with the returned list
SelectorReturn ==
    /\ selector_pc = "returned"
    /\ selector_pc' = "idle"
    /\ assets' = <<>>
    /\ UNCHANGED <<media, tracking_file, selection_file>>
    /\ UNCHANGED non_selector_vars

InitRotation ==
    /\ requests_json_error \in BOOLEAN
    /\ has_simplejson \in BOOLEAN
    /\ PublishIdle
    /\ media \in MediaPools
    /\ tracking_file \in TrackingFiles
    /\ selector_pc = "idle"
    /\ assets = <<>>
    /\ selection_file = NoSelectionFile
    /\ parent_dir = (tracking_file.state # "missing")
    /\ StoreIdle
    /\ SideIdle
    /\ CycleIdle

NextRotation ==
    \/ get_assets_to_post
    \/ SelectorReturn

SpecRotation == InitRotation /\ [][NextRotation]_vars

-----------------------------------------------------------------------------
(* Asset selector, explicit selection: get_assets_to_post(selected_only=True) *)

\* the paths a SelectionFile lists: each is, on disk, a regular file, a
\* directory or nothing
SelectionEntries == {p \in Paths : p.suffix \in {".jpg", ".MOV"}}
SelectionLists == UNION {[1 .. n -> SelectionEntries] : n \in 0 .. MaxListed}

SelectionFiles ==
    {SelectionFile("missing", <<>>, <<>>), SelectionFile("malformed", <<>>, <<>>)}
        \cup {SelectionFile("ok", images, videos) :
                  images \in SelectionLists, videos \in SelectionLists}

\* the listed paths, images first: none if the file is missing or not JSON
ListedPaths ==
    IF selection_file.state = "ok"
    THEN selection_file.images \o selection_file.videos
    ELSE <<>>

\* a listed path is kept if it exists, regular file or not
SelectedExisting(listed) == SelectSeq(listed, LAMBDA p : exists(p))
\* a listed path is kept if it exists on disk as a regular file
Selected(listed) == SelectSeq(listed, LAMBDA p : exists(p) /\ is_file(p))

\* get_assets_to_post(selected_only=True)
get_selected_assets ==
    /\ selector_pc = "idle"
    /\ assets' = Selected(ListedPaths)
    /\ selector_pc' = "returned"
    /\ UNCHANGED <<media, tracking_file, selection_file>>
    /\ UNCHANGED non_selector_vars

InitSelection ==
    /\ requests_json_error \in BOOLEAN
    /\ has_simplejson \in BOOLEAN
    /\ PublishIdle
    /\ media = <<>>
    /\ tracking_file = NoTrackingFile
    /\ selector_pc = "idle"
    /\ assets = <<>>
    /\ selection_file \in SelectionFiles
    /\ parent_dir = FALSE
    /\ StoreIdle
    /\ SideIdle
    /\ CycleIdle

NextSelection ==
    \/ get_selected_assets
    \/ SelectorReturn

SpecSelection == InitSelection /\ [][NextSelection]_vars

-----------------------------------------------------------------------------
(* Publish Tracking Store: load_asset_tracking and save_asset_tracking     *)

\* the exception raised inside load's try block: the file exists and cannot
\* be read, or its content is not JSON
LoadTryRaises ==
    CASE tracking_file.state = "unreadable" -> "OSError"
      [] tracking_file.state = "malformed" -> "JSONDecodeError"
      [] OTHER -> "none"

\* load catches the JSON error only
LoadCatchesJsonOnly(exc) == exc = "JSONDecodeError"
\* load logs and swallows any failure of reading the file
LoadCatches(exc) == exc \in {"JSONDecodeError", "OSError"}

\* load_asset_tracking(), as a call: json.load is reached only if the file
\* exists
load_asset_tracking_call ==
    /\ store_pc \in {"idle", "saved"}
    /\ loaded' = [returned |-> load_asset_tracking,
                  json_load_called |-> tracking_file.state # "missing",
                  raised |-> LoadTryRaises # "none" /\ ~ LoadCatches(LoadTryRaises)]
    /\ store_pc' = "loaded"
    /\ UNCHANGED <<parent_dir, saved>>
    /\ UNCHANGED <<media, tracking_file, selector_pc, assets, selection_file>>
    /\ UNCHANGED <<build, publish_vars, cycle_vars, side_vars>>

\* how a save can end: written, or one of its steps fails
SaveOutcomes == {"ok", "mkdir_fails", "open_fails", "dump_fails"}

\* the exception a failing step of save raises
SaveTryRaises(outcome) ==
    CASE outcome \in {"mkdir_fails", "open_fails"} -> "OSError"
      [] outcome = "dump_fails" -> "Exception"
      [] OTHER -> "none"

\* save logs and swallows any serialization or IO failure
SaveCatches(exc) == exc \in {"OSError", "Exception"}

\* the file is patched: the keys the map does not have keep their record
WrittenPatched(old, data) ==
    TrackingFile("ok", [k \in AssetKeys |->
                           IF data[k] # NoStamp \/ old.state # "ok" THEN data[k]
                           ELSE old.data[k]])
\* the file is rewritten: it holds the map, whatever it held
Written(old, data) == TrackingFile("ok", data)

\* the file after a save: a failed json.dump leaves what the implementation
\* had written by then, the old file or a truncated one
FilesAfterSave(old, data, outcome) ==
    CASE outcome = "ok" -> {Written(old, data)}
      [] outcome = "dump_fails" -> {old, TrackingFile("malformed", EmptyTracking)}
      [] OTHER -> {old}

\* save_asset_tracking(data): parent.mkdir(parents=True, exist_ok=True),
\* then json.dump into the file
save_asset_tracking(data, outcome) ==
    /\ store_pc = "idle"
    /\ outcome = "mkdir_fails" => ~ parent_dir
    /\ parent_dir' = (parent_dir \/ outcome # "mkdir_fails")
    /\ tracking_file' \in FilesAfterSave(tracking_file, data, outcome)
    /\ saved' = [data |-> data, outcome |-> outcome, mkdir_called |-> TRUE,
                 raised |-> outcome # "ok" /\ ~ SaveCatches(SaveTryRaises(outcome))]
    /\ store_pc' = "saved"
    /\ UNCHANGED loaded
    /\ UNCHANGED <<media, selector_pc, assets, selection_file>>
    /\ UNCHANGED <<build, publish_vars, cycle_vars, side_vars>>

\* the store files a session starts from: none, an unusable one, or one
\* whose records carry the earliest timestamp
SeedStamp == [i \in 1 .. 2 |-> 0]
SeedFiles ==
    {TrackingFile(state, EmptyTracking) : state \in {"missing", "malformed", "unreadable"}}
        \cup {TrackingFile("ok", data) : data \in [AssetKeys -> {SeedStamp, NoStamp}]}

\* the build is the one the repository pins (requests 2.32.3)
InitTracking ==
    /\ requests_json_error = TRUE
    /\ has_simplejson = FALSE
    /\ PublishIdle
    /\ media = <<>>
    /\ selector_pc = "idle"
    /\ assets = <<>>
    /\ selection_file = NoSelectionFile
    /\ tracking_file \in SeedFiles
    /\ parent_dir \in {b \in BOOLEAN : tracking_file.state # "missing" => b}
    /\ StoreIdle
    /\ SideIdle
    /\ CycleIdle

NextTracking ==
    \/ \E data \in TrackingMaps, outcome \in SaveOutcomes :
           save_asset_tracking(data, outcome)
    \/ load_asset_tracking_call

SpecTracking == InitTracking /\ [][NextTracking]_vars

-----------------------------------------------------------------------------
(* Publish cycle: select an asset, publish it, on success update the       *)
(* Tracking Store                                                          *)

\* cycles of one run: one more than the files of the pool, so that a file
\* can come round again
MaxCycles == Cardinality(AssetKeys) + 1
\* the last time that has a timestamp
LastClock == (MaxDigit + 1) * (MaxDigit + 1) - 1

\* datetime.now().isoformat() at time n: a later time gives a greater string
isoformat(n) == <<n \div (MaxDigit + 1), n % (MaxDigit + 1)>>

\* what a step of the cycle leaves alone
cycle_frame == <<media, selector_pc, assets, selection_file, store_pc, saved,
                 loaded, build, publish_vars, side_vars>>

Completed(p, status, recorded) ==
    [proc |-> p, asset |-> cycle[p].asset, status |-> status,
     recorded |-> recorded, stamp |-> cycle[p].stamp]

\* the cycle asks the selector (Mode B) for the asset to publish
cycle_select(p) ==
    /\ cycle[p].pc = "select"
    /\ \E list \in Rotation(media, load_asset_tracking) :
           cycle' = [cycle EXCEPT ![p] =
                        IF list = <<>>
                        THEN CycleState("done", NoAsset, "none", EmptyTracking, NoStamp)
                        ELSE CycleState("publish", list[1], "none", EmptyTracking,
                                        NoStamp)]
    /\ UNCHANGED <<tracking_file, parent_dir, clock, history, cycle_frame>>

\* the Tracking Store is updated whatever the publish call returned
ShouldRecordAlways(status) == TRUE
\* the Tracking Store is updated only if the publish call reports success
ShouldRecord(status) == status = "success"

\* the publish call returns its result dict: status success or failed
cycle_publish(p, status) ==
    /\ cycle[p].pc = "publish"
    /\ IF ShouldRecord(status)
       THEN /\ cycle' = [cycle EXCEPT ![p].pc = "load", ![p].status = status]
            /\ UNCHANGED history
       ELSE /\ cycle' = [cycle EXCEPT ![p].pc = "done", ![p].status = status]
            /\ history' = Append(history, Completed(p, status, FALSE))
    /\ UNCHANGED <<tracking_file, parent_dir, clock, cycle_frame>>

\* the update: load the store, set the asset's record to the current time
cycle_load(p) ==
    /\ cycle[p].pc = "load"
    /\ clock <= LastClock
    /\ cycle' = [cycle EXCEPT
                    ![p].pc = "save",
                    ![p].stamp = isoformat(clock),
                    ![p].tracking =
                        [load_asset_tracking EXCEPT
                            ![relative_to(cycle[p].asset, PROJECT_ROOT)] =
                                isoformat(clock)]]
    /\ clock' = clock + 1
    /\ UNCHANGED <<tracking_file, parent_dir, history, cycle_frame>>

\* the update: save the whole map
cycle_save(p, outcome) ==
    /\ cycle[p].pc = "save"
    /\ outcome = "mkdir_fails" => ~ parent_dir
    /\ parent_dir' = (parent_dir \/ outcome # "mkdir_fails")
    /\ tracking_file' \in FilesAfterSave(tracking_file, cycle[p].tracking, outcome)
    /\ history' = Append(history, Completed(p, cycle[p].status, outcome = "ok"))
    /\ cycle' = [cycle EXCEPT ![p].pc = "done"]
    /\ UNCHANGED <<clock, cycle_frame>>

\* the next run of the cycle by the same process
cycle_again(p) ==
    /\ cycle[p].pc = "done"
    /\ Len(history) < MaxCycles
    /\ cycle' = [cycle EXCEPT ![p] = CycleStart]
    /\ UNCHANGED <<tracking_file, parent_dir, clock, history, cycle_frame>>

\* before the cycles: any pool, a store file written in the past
CycleEnvironment ==
    /\ requests_json_error = TRUE
    /\ has_simplejson = FALSE
    /\ PublishIdle
    /\ media \in MediaPools
    /\ selector_pc = "idle"
    /\ assets = <<>>
    /\ selection_file = NoSelectionFile
    /\ tracking_file \in SeedFiles
    /\ parent_dir = (tracking_file.state # "missing")
    /\ StoreIdle
    /\ SideIdle
    /\ clock \in {c \in {0, 1} : c = 0 => tracking_file.state # "ok"}
    /\ history = <<>>

\* one process runs the cycles, one after the other
InitCycle ==
    /\ CycleEnvironment
    /\ cycle = [p \in Procs |-> IF p = 1 THEN CycleStart ELSE CycleOff]

NextCycle ==
    \E p \in Procs :
        \/ cycle_select(p)
        \/ \E status \in {"success", "failed"} : cycle_publish(p, status)
        \/ cycle_load(p)
        \/ \E outcome \in SaveOutcomes : cycle_save(p, outcome)
        \/ cycle_again(p)

SpecCycle == InitCycle /\ [][NextCycle]_vars

\* two processes run their cycles at the same time, with no lock on the
\* store file
InitRace ==
    /\ CycleEnvironment
    /\ cycle = [p \in Procs |-> CycleStart]

\* each of the two runs one cycle
NextRace ==
    \E p \in Procs :
        \/ cycle_select(p)
        \/ \E status \in {"success", "failed"} : cycle_publish(p, status)
        \/ cycle_load(p)
        \/ \E outcome \in SaveOutcomes : cycle_save(p, outcome)

SpecRace == InitRace /\ [][NextRace]_vars

-----------------------------------------------------------------------------
(* Scheduler: TaskScheduler (src/Automatizare_Completa/scheduler.py)       *)

\* run_at_datetime of a job: a key that is absent or empty, a string that is
\* no ISO date, or a day
RunAtEmpty == 0 - 1
RunAtInvalid == 0 - 2
NoDay == 0 - 1

\* a job dict: job.get('executed', False) is FALSE for a job without the key
Job(type, enabled, executed, run_at) ==
    [type |-> type, enabled |-> enabled, executed |-> executed, run_at |-> run_at,
     last_run |-> NoDay]

\* the template load_schedule writes when there is no schedule file; its
\* one-time job is dated 2025-10-26, in the past
DefaultSchedule ==
    <<Job("daily", TRUE, FALSE, RunAtEmpty),
      Job("interval", FALSE, FALSE, RunAtEmpty),
      Job("once", TRUE, FALSE, 0)>>

\* how save_schedule can end: the exception of a failed save is logged
SaveScheduleOutcomes == {"ok", "fails"}
SavedSchedules(old, list, outcome) ==
    IF outcome = "ok" THEN {ScheduleFile("ok", list)}
    ELSE {old, ScheduleFile("malformed", <<>>)}

\* load_schedule: the jobs it returns
LoadedJobs(file) ==
    CASE file.state = "missing" -> DefaultSchedule
      [] file.state = "ok" -> file.jobs
      [] OTHER -> <<>>

\* how run_task can end: the script is not there, subprocess.run returns
\* with code 0 or another code, or it raises TimeoutExpired
RunOutcomes == {"no_script", "completed", "failed", "timeout"}
\* subprocess.run was called: the task ran
Started(outcome) == outcome # "no_script"
\* run_task reached the update of the job status
Updated(outcome) == outcome \in {"completed", "failed"}

\* the job dict after run_task(job)
RunTask(job, outcome, day) ==
    IF Updated(outcome)
    THEN [job EXCEPT !.last_run = day,
                     !.executed = IF job.type = "once" THEN TRUE ELSE @]
    ELSE job

\* setup_schedules: a one-time job that is due is run at once
RunsNow(job, day) ==
    /\ job.enabled
    /\ job.type = "once"
    /\ job.run_at \notin {RunAtEmpty, RunAtInvalid}
    /\ ~ job.executed
    /\ job.run_at <= day

\* setup_schedules: the job is registered with the schedule library; a
\* one-time job of a later time is registered as every().day.at(HH:MM)
Registers(job, day) ==
    /\ job.enabled
    /\ \/ job.type \in {"daily", "weekly", "interval"}
       \/ /\ job.type = "once"
          /\ job.run_at \notin {RunAtEmpty, RunAtInvalid}
          /\ ~ job.executed
          /\ job.run_at > day

\* the runs started among the jobs of the set due, in job order
RunLog(list, due, outcomes, day) ==
    LET indexes == [i \in DOMAIN list |-> i]
        started == SelectSeq(indexes, LAMBDA i : i \in due /\ Started(outcomes[i]))
    IN  [n \in DOMAIN started |->
            [job |-> started[n],
             type |-> list[started[n]].type,
             executed |-> list[started[n]].executed,
             marked |-> Updated(outcomes[started[n]]) /\ list[started[n]].type = "once",
             day |-> day]]

\* the job dicts after run_task on the jobs of the set due
JobsAfter(list, due, outcomes, day) ==
    [i \in DOMAIN list |->
        IF i \in due THEN RunTask(list[i], outcomes[i], day) ELSE list[i]]

scheduler_frame == <<build, publish_vars, selector_vars, store_vars, cycle_vars,
                     orchestrator_vars>>

\* run_scheduler up to its loop: load_schedule (which writes the template
\* if there is no file), setup_schedules, save_schedule
run_scheduler ==
    /\ sched_pc = "stopped"
    /\ LET list == LoadedJobs(schedule_file)
           due == {i \in DOMAIN list : RunsNow(list[i], now)}
       IN  \E file \in IF schedule_file.state = "missing"
                        THEN UNION {SavedSchedules(schedule_file, DefaultSchedule, o) :
                                       o \in SaveScheduleOutcomes}
                        ELSE {schedule_file} :
               IF list = <<>>
               THEN /\ schedule_file' = file
                    /\ UNCHANGED <<sched_pc, jobs, registered, runs>>
               ELSE \E outcomes \in [DOMAIN list -> RunOutcomes],
                       saved_after \in SaveScheduleOutcomes :
                        /\ \A i \in DOMAIN list :
                               i \notin due => outcomes[i] = "no_script"
                        /\ jobs' = JobsAfter(list, due, outcomes, now)
                        /\ registered' = {i \in DOMAIN list : Registers(list[i], now)}
                        /\ runs' = runs \o RunLog(list, due, outcomes, now)
                        /\ schedule_file' \in SavedSchedules(file, jobs', saved_after)
                        /\ sched_pc' = "running"
    /\ UNCHANGED <<now, scheduler_frame>>

\* a day of the loop: schedule.run_pending() calls run_task for every
\* registered job when its time of day comes
run_pending ==
    /\ sched_pc = "running"
    /\ now < MaxDay
    /\ now' = now + 1
    /\ \E outcomes \in [DOMAIN jobs -> RunOutcomes] :
           /\ \A i \in DOMAIN jobs : i \notin registered => outcomes[i] = "no_script"
           /\ jobs' = JobsAfter(jobs, registered, outcomes, now')
           /\ runs' = runs \o RunLog(jobs, registered, outcomes, now')
    /\ UNCHANGED <<schedule_file, sched_pc, registered, scheduler_frame>>

\* the process is stopped (KeyboardInterrupt); it is started again a day
\* later
stop_scheduler ==
    /\ sched_pc = "running"
    /\ now < MaxDay
    /\ now' = now + 1
    /\ sched_pc' = "stopped"
    /\ jobs' = <<>>
    /\ registered' = {}
    /\ UNCHANGED <<schedule_file, runs, scheduler_frame>>

\* the schedule files the scheduler starts from: none, a broken one, or one
\* job of type daily or once
ScheduledJobs ==
    {Job(type, enabled, executed, run_at) :
        type \in {"daily", "once"}, enabled \in BOOLEAN, executed \in BOOLEAN,
        run_at \in {RunAtEmpty, RunAtInvalid, 0, 2}}
ScheduleFiles ==
    {ScheduleFile("missing", <<>>), ScheduleFile("malformed", <<>>),
     ScheduleFile("ok", <<>>)}
        \cup {ScheduleFile("ok", <<job>>) : job \in ScheduledJobs}

InitScheduler ==
    /\ requests_json_error = TRUE
    /\ has_simplejson = FALSE
    /\ PublishIdle
    /\ SelectorIdle
    /\ parent_dir = FALSE
    /\ StoreIdle
    /\ CycleIdle
    /\ OrchestratorIdle
    /\ schedule_file \in ScheduleFiles
    /\ sched_pc = "stopped"
    /\ jobs = <<>>
    /\ registered = {}
    /\ now = 0
    /\ runs = <<>>

NextScheduler ==
    \/ run_scheduler
    \/ run_pending
    \/ stop_scheduler

SpecScheduler == InitScheduler /\ [][NextScheduler]_vars

-----------------------------------------------------------------------------
(* Orchestrator: Orchestrator.execute_command (src/orchestrator.py)        *)

Commands == {"health", "backup", "validate", "sync", "context", "auto", "full"}
Modes == {"post", "generate", "schedule", "full"}

\* the return codes of a script run by run_script: success, failures, and a
\* process killed by a signal
ReturnCodes == {0, 1, 2, 0 - 9}

\* bool(result)
Truthy(value) == IF value.kind = "bool" THEN value.b ELSE value.n # 0

\* exit_code = 0 if result else 1 if isinstance(result, bool) else result
ExitCode(value) ==
    IF Truthy(value) THEN 0
    ELSE IF value.kind = "bool" THEN 1
    ELSE value.n

\* run_automation(mode): one script, or generate then post, stopping at the
\* first that fails
RunAutomation(m, generate, post, schedule) ==
    CASE m = "generate" -> generate
      [] m = "post" -> post
      [] m = "schedule" -> schedule
      [] m = "full" -> IF generate # 0 THEN generate ELSE post
      [] OTHER -> 1

\* run_full_pipeline: the steps in order, a bool turned into 0 or 1, the
\* first result that is not 0 returned
PipelineSteps == <<"health", "backup", "context", "validate", "automation", "sync">>
StepCode(value) ==
    IF value.kind = "bool" THEN (IF value.b THEN 0 ELSE 1) ELSE value.n
RunFullPipeline(values) ==
    LET failed == {i \in DOMAIN PipelineSteps : StepCode(values[i]) # 0}
    IN  IF failed = {} THEN 0
        ELSE StepCode(values[CHOOSE i \in failed : \A j \in failed : i <= j])

\* what each step of the pipeline can return
StepResults(step) ==
    IF step = "health" THEN {PyBool(TRUE), PyBool(FALSE)}
    ELSE {PyInt(n) : n \in ReturnCodes}

\* what the function of a command can return
CommandResults(c, m) ==
    CASE c = "health" -> {PyBool(TRUE), PyBool(FALSE)}
      [] c = "auto" -> {PyInt(RunAutomation(m, g, p, sc)) :
                                g \in ReturnCodes, p \in ReturnCodes, sc \in ReturnCodes}
      [] c = "full" ->
            {PyInt(RunFullPipeline(values)) :
                values \in {r \in [DOMAIN PipelineSteps -> UNION {StepResults(st) :
                                        st \in Range(PipelineSteps)}] :
                                 \A i \in DOMAIN PipelineSteps :
                                     r[i] \in StepResults(PipelineSteps[i])}}
      [] OTHER -> {PyInt(n) : n \in ReturnCodes}

orchestrator_frame == <<build, publish_vars, selector_vars, store_vars, cycle_vars,
                        scheduler_vars>>

\* execute_command(command, mode=mode): the command function is called,
\* its result turned into the exit code, the context updated and saved;
\* save_context has no try around it
execute_command(c, m, save_raises) ==
    /\ orch_pc = "idle"
    /\ command' = c
    /\ mode' = m
    /\ IF c \in Commands
       THEN \E value \in CommandResults(c, m) :
                /\ cmd_result' = value
                /\ context' = [last_exit_code |-> ExitCode(value),
                               last_operation |-> c]
                /\ IF save_raises
                   THEN orch_pc' = "raised" /\ exit_code' = NoCode
                   ELSE orch_pc' = "done" /\ exit_code' = ExitCode(value)
       ELSE /\ ~ save_raises
            /\ orch_pc' = "done"
            /\ exit_code' = 1
            /\ UNCHANGED <<cmd_result, context>>
    /\ UNCHANGED orchestrator_frame

\* the process exits with the code; the context stays in its file
orchestrator_exit ==
    /\ orch_pc \in {"done", "raised"}
    /\ orch_pc' = "idle"
    /\ command' = ""
    /\ mode' = ""
    /\ cmd_result' = PyInt(0)
    /\ exit_code' = NoCode
    /\ UNCHANGED <<context, orchestrator_frame>>

InitOrchestrator ==
    /\ requests_json_error = TRUE
    /\ has_simplejson = FALSE
    /\ PublishIdle
    /\ SelectorIdle
    /\ parent_dir = FALSE
    /\ StoreIdle
    /\ CycleIdle
    /\ SchedulerIdle
    /\ OrchestratorIdle

NextOrchestrator ==
    \/ \E c \in Commands \cup {"unknown"}, m \in Modes, save_raises \in BOOLEAN :
           execute_command(c, m, save_raises)
    \/ orchestrator_exit

SpecOrchestrator == InitOrchestrator /\ [][NextOrchestrator]_vars

-----------------------------------------------------------------------------
(* Properties of post_text *)

\* the call received an HTTP response with one of the retryable statuses
RetryableResponse(c) ==
    c.resp.exc = "none" /\ c.resp.status_code \in {429, 500, 502, 503, 504}

\* the call failed with a retryable outcome: such a status, a timeout or a
\* connection error
RetryableOutcome(c) ==
    RetryableResponse(c) \/ c.resp.exc \in {"Timeout", "ConnectionError"}

\* the call received HTTP 200
Returned200(c) == c.resp.exc = "none" /\ c.resp.status_code = 200

\* the call received a status that is neither 200 nor retryable
NonRetryableResponse(c) ==
    c.resp.exc = "none" /\ c.resp.status_code \notin {200, 429, 500, 502, 503, 504}

\* C1: in post_text, while every attempt so far received a status in
\* {429,500,502,503,504}, the operation keeps calling until the third call;
\* after the third it has returned failed, and the sleeps are exactly 1s
\* after the first call and 2s after the second, none after the third.
C1_RetryExhaustion ==
    (op = "post_text" /\ calls # <<>> /\ \A i \in 1 .. Len(calls) : RetryableResponse(calls[i]))
        => /\ Len(calls) <= 3
           /\ Len(calls) < 3 => pc = "text_call"
           /\ Len(calls) = 3 => pc = "done" /\ result.status = "failed"
           /\ sleeps = SubSeq(<<[after |-> 1, secs |-> 1], [after |-> 2, secs |-> 2]>>,
                              1, IF Len(calls) < 3 THEN Len(calls) ELSE 2)

C1_Witness ==
    /\ op = "post_text" /\ pc = "done" /\ Len(calls) = 3
    /\ \A i \in 1 .. 3 : RetryableResponse(calls[i])
    /\ Len(sleeps) = 2
    /\ result.status = "failed"

\* C2 as stated: if attempts 1..k-1 of post_text failed with a retryable
\* outcome and attempt k returned HTTP 200, then attempt k is the last call,
\* the operation has returned, and the result is success with the id of the
\* body of attempt k.
C2_Original ==
    \A k \in 1 .. Len(calls) :
        (/\ op = "post_text"
         /\ \A i \in 1 .. k - 1 : RetryableOutcome(calls[i])
         /\ Returned200(calls[k]))
            => /\ k = Len(calls)
               /\ pc = "done"
               /\ result.status = "success"
               /\ result.post_id = Get(calls[k].resp.body.id, None)

\* C2: the same, for an attempt k that returned HTTP 200 with a body that
\* parses to a JSON object (the id is None when the object has no "id").
C2_SuccessAfterRetries ==
    \A k \in 1 .. Len(calls) :
        (/\ op = "post_text"
         /\ \A i \in 1 .. k - 1 : RetryableOutcome(calls[i])
         /\ Returned200(calls[k])
         /\ calls[k].resp.body.shape \in {"obj", "objBadError"})
            => /\ k = Len(calls)
               /\ k <= 3
               /\ pc = "done"
               /\ result.status = "success"
               /\ result.post_id = Get(calls[k].resp.body.id, None)

C2_Witness ==
    /\ op = "post_text" /\ pc = "done" /\ Len(calls) = 3
    /\ RetryableResponse(calls[1])
    /\ calls[2].resp.exc = "Timeout"
    /\ Returned200(calls[3])
    /\ result.status = "success" /\ result.post_id = "p2"

\* C3 as stated: a response of post_text with a status other than 200 and
\* outside {429,500,502,503,504} is the last call, no sleep follows it, and
\* the result is failed with that status code.
C3_NonRetryableEndsAtOnce ==
    \A k \in 1 .. Len(calls) :
        (op = "post_text" /\ NonRetryableResponse(calls[k]))
            => /\ k = Len(calls)
               /\ pc = "done"
               /\ \A j \in 1 .. Len(sleeps) : sleeps[j].after < k
               /\ result.status = "failed"
               /\ result.status_code = calls[k].resp.status_code

-----------------------------------------------------------------------------
(* Properties of the validation *)

\* the message is empty or consists of whitespace only
Blank(m) == \A i \in 1 .. Len(m) : m[i] \in {" ", "\t", "\n"}

\* C4: an invocation of post_text, post_image or post_video with an empty or
\* whitespace-only message has returned {status: failed, error: "Message
\* cannot be empty"} without any HTTP call, whatever the path is.
C4_EmptyMessage ==
    (op # "none" /\ pc # "idle" /\ Blank(message))
        => /\ pc = "done"
           /\ calls = <<>>
           /\ result.status = "failed"
           /\ result.error.msg = "Message cannot be empty"

C4_Witness ==
    /\ op = "post_video" /\ pc = "done"
    /\ message = <<" ", "\n", "\t">>
    /\ path.state = "missing"
    /\ result.error.msg = "Message cannot be empty"

\* the suffix is outside the allowed set of the operation (compared without
\* regard to case)
Disallowed(o, suffix) ==
    IF o = "post_image" THEN suffix \in {".MOV", ".txt", ""}
                        ELSE suffix \in {".jpg", ".PNG", ".txt", ""}

\* C5: an invocation of post_image or post_video whose path does not exist,
\* is not a regular file or has a disallowed suffix has returned failed
\* without any HTTP call; when the path is not a regular file and the suffix
\* is disallowed the error is never the unsupported-format one, and with a
\* valid message it is the "not found or invalid" one.
C5_InvalidFile ==
    (/\ op \in {"post_image", "post_video"}
     /\ pc # "idle"
     /\ (path.state # "file" \/ Disallowed(op, path.suffix)))
        => /\ pc = "done"
           /\ calls = <<>>
           /\ result.status = "failed"
           /\ path.state # "file" =>
                /\ result.error.msg \notin {"Unsupported image format: {suffix}",
                                            "Unsupported video format: {suffix}"}
                /\ ~Blank(message) =>
                     result.error.msg = (IF op = "post_image"
                                         THEN "Image file not found or invalid"
                                         ELSE "Video file not found or invalid")

C5_Witness ==
    /\ op = "post_image" /\ pc = "done"
    /\ ~Blank(message)
    /\ path = [state |-> "directory", suffix |-> ".txt"]
    /\ result.error.msg = "Image file not found or invalid"
    /\ calls = <<>>

-----------------------------------------------------------------------------
(* Properties of post_video *)

\* the indices of the calls of a phase
CallsOf(phase) == { i \in 1 .. Len(calls) : calls[i].phase = phase }

\* the call returned a status other than 200
ReturnedNon200(c) == c.resp.exc = "none" /\ c.resp.status_code # 200

\* the finish call returned HTTP 200 with success=true
FinishSucceeded(c) ==
    c.phase = "finish" /\ Returned200(c) /\ c.resp.body.success = "true"

RECURSIVE SumLen(_)
\* the sum of the chunk lengths of the transfer calls among cs
SumLen(cs) ==
    IF cs = <<>> THEN 0
    ELSE (IF Head(cs).phase = "transfer" THEN Head(cs).len ELSE 0) + SumLen(Tail(cs))

\* C6: a finish call of post_video that returned HTTP 200 with a body whose
\* success flag is false or missing is the last HTTP call (no status poll
\* follows) and the result is failed.
C6_FinishWithoutSuccess ==
    \A k \in CallsOf("finish") :
        (/\ op = "post_video"
         /\ Returned200(calls[k])
         /\ calls[k].resp.body.success # "true")
            => /\ k = Len(calls)
               /\ pc = "done"
               /\ result.status = "failed"

C6_Witness ==
    /\ op = "post_video" /\ pc = "done"
    /\ \E k \in CallsOf("finish") :
         /\ Returned200(calls[k])
         /\ calls[k].resp.body.shape = "obj"
         /\ calls[k].resp.body.success = Absent
    /\ CallsOf("transfer") # {}
    /\ result.error.msg = "Upload finish failed"

\* C7 as stated: whenever the finish call of post_video has been issued, the
\* chunk lengths of the transfer calls sum to the file size.
C7_Original ==
    (op = "post_video" /\ CallsOf("finish") # {}) => SumLen(calls) = file_size

\* C7: whenever the finish call has been issued, the chunk lengths of the
\* transfer calls sum to the number of bytes read from the file, which is at
\* most the file size, and fall short of it only when the last offset the
\* server reported (the initial start_offset or a transfer's next offset)
\* reached file_size while bytes were unsent; so they sum to the file size
\* when every reported offset is at most the number of bytes sent so far.
C7_BytesSentAtFinish ==
    (op = "post_video" /\ CallsOf("finish") # {})
        => /\ SumLen(calls) = file_pos
           /\ SumLen(calls) <= file_size
           /\ SumLen(calls) < file_size => current_offset >= file_size
           /\ (\A i \in CallsOf("transfer") : calls[i].start_offset <= calls[i].pos)
                 /\ current_offset <= file_pos
                 => SumLen(calls) = file_size

C7_Witness ==
    /\ op = "post_video" /\ CallsOf("finish") # {}
    /\ Cardinality(CallsOf("transfer")) = 2
    /\ \E i \in CallsOf("transfer") : calls[i].start_offset < calls[i].pos
    /\ SumLen(calls) = file_size
    /\ file_size = 3

\* rank of a phase in the order start, transfer, finish, poll
PhaseRank(phase) ==
    CASE phase = "start" -> 1
      [] phase = "transfer" -> 2
      [] phase = "finish" -> 3
      [] OTHER -> 4

\* C8: the HTTP calls of a post_video invocation are one start call, then
\* transfers, then at most one finish, then polls; a transfer follows only a
\* start that returned 200; finish follows only transfers that all returned
\* 200 and a loop that ended; a poll follows only a finish that returned 200
\* with success=true; a start, transfer or finish call that returned non-200
\* is the last call and the result is failed.
C8_PhaseOrder ==
    op = "post_video" =>
        /\ \A i, j \in 1 .. Len(calls) :
              i < j => PhaseRank(calls[i].phase) <= PhaseRank(calls[j].phase)
        /\ calls # <<>> => CallsOf("start") = {1}
        /\ pc \notin {"idle", "done", "video_start"} => calls # <<>>
        /\ Cardinality(CallsOf("finish")) <= 1
        /\ CallsOf("transfer") # {} => Returned200(calls[1])
        /\ CallsOf("finish") # {} =>
              /\ Returned200(calls[1])
              /\ \A i \in CallsOf("transfer") : Returned200(calls[i])
              /\ current_offset >= file_size \/ file_pos >= file_size
        /\ CallsOf("poll") # {} => \E k \in CallsOf("finish") : FinishSucceeded(calls[k])
        /\ \A k \in 1 .. Len(calls) :
              (calls[k].phase \in {"start", "transfer", "finish"} /\ ReturnedNon200(calls[k]))
                 => k = Len(calls) /\ pc = "done" /\ result.status = "failed"

C8_Witness ==
    /\ op = "post_video" /\ pc = "done"
    /\ Cardinality(CallsOf("transfer")) = 2
    /\ CallsOf("finish") # {}
    /\ Cardinality(CallsOf("poll")) = 2
    /\ result.status = "success"

\* C9 as stated: a start call of post_video that returned a non-200 status,
\* or HTTP 200 with a payload carrying no video_id / upload_session_id, is
\* the last HTTP call and the result is failed.
C9_StartErrorFailsAtOnce ==
    (/\ op = "post_video"
     /\ calls # <<>>
     /\ calls[1].phase = "start"
     /\ \/ ReturnedNon200(calls[1])
        \/ /\ Returned200(calls[1])
           /\ calls[1].resp.body.video_id = Absent
           /\ calls[1].resp.body.upload_session_id = Absent)
        => /\ Len(calls) = 1
           /\ pc = "done"
           /\ result.status = "failed"

\* C10 as stated: once the finish call of post_video has returned HTTP 200
\* with success=true, the operation returns success with the video id and
\* the file size, whatever the status polls return or raise.
C10_PollNeverChangesResult ==
    (/\ op = "post_video"
     /\ pc = "done"
     /\ \E k \in CallsOf("finish") : FinishSucceeded(calls[k]))
        => /\ result.status = "success"
           /\ result.video_id = video_id
           /\ result.file_size = file_size

-----------------------------------------------------------------------------
(* Properties of the status poll and of the handling of timeouts *)

\* the last HTTP call got a 200 status response reporting ready or failed
TerminalStatus(r) ==
    /\ r.exc = "none" /\ r.status_code = 200
    /\ r.body.shape \in {"obj", "objBadError"}
    /\ r.body.status \in {"ready", "failed"}

\* C11: the status poll of post_video issues at most 10 GET requests and
\* none after a response whose status is ready or failed; every sleep of the
\* invocation is a 5s sleep right after a poll that is followed by another
\* poll, one after each such poll, so that a finished invocation has slept
\* once less than it polled (no sleep after its last poll).
C11_PollBounds ==
    (op = "post_video" /\ pc # "idle")
        => LET polls == CallsOf("poll")
               first == Len(calls) - Cardinality(polls) + 1
           IN  /\ Cardinality(polls) <= 10
               /\ \A j \in 1 .. Len(sleeps) :
                     sleeps[j] = [after |-> first + j - 1, secs |-> 5]
               /\ pc # "video_poll" => polls = {} \/ Len(sleeps) = Cardinality(polls) - 1
               /\ pc = "video_poll" => /\ Len(sleeps) = Cardinality(polls)
                                       /\ Cardinality(polls) < 10
               /\ (polls # {} /\ TerminalStatus(response)) => pc = "done"

C11_Witness ==
    /\ op = "post_video" /\ pc = "done"
    /\ Cardinality(CallsOf("poll")) = 10
    /\ Len(sleeps) = 9
    /\ result.status = "success"

\* C12: in post_text a timeout on attempt 1 or 2 is followed by the backoff
\* sleep of that attempt and by another HTTP call; in post_image and
\* post_video a timeout of any HTTP call is the last call, no sleep follows
\* it and the result is failed; post_image never makes a second call.
C12_TimeoutAsymmetry ==
    /\ op = "post_text" =>
          \A k \in 1 .. Len(calls) :
              (calls[k].resp.exc = "Timeout" /\ k <= 2)
                 => /\ Len(sleeps) >= k
                    /\ sleeps[k] = [after |-> k, secs |-> IF k = 1 THEN 1 ELSE 2]
                    /\ Len(calls) > k \/ pc = "text_call"
    /\ op = "post_image" =>
          /\ Len(calls) <= 1
          /\ sleeps = <<>>
          /\ calls # <<>> => pc = "done"
    /\ (op \in {"post_image", "post_video"} /\ calls # <<>> /\ response.exc = "Timeout")
          => /\ pc = "done"
             /\ result.status = "failed"
             /\ \A j \in 1 .. Len(sleeps) : sleeps[j].after < Len(calls)

C12_Witness ==
    /\ op = "post_text" /\ pc = "done"
    /\ Len(calls) = 3
    /\ calls[1].resp.exc = "Timeout"
    /\ calls[2].resp.exc = "Timeout"
    /\ Returned200(calls[3])
    /\ result.status = "success"
    /\ Len(sleeps) = 2

\* C13 as stated: whenever post_text has failed after three attempts that
\* all had a retryable outcome (status, timeout or connection error), the
\* error states the attempt count and a status.
C13_Original ==
    (/\ op = "post_text" /\ pc = "done" /\ Len(calls) = 3
     /\ \A i \in 1 .. 3 : RetryableOutcome(calls[i]))
        => /\ result.status = "failed"
           /\ result.error.attempts = 3
           /\ result.error.status \in {429, 500, 502, 503, 504}

\* C13: whenever post_text has failed after three attempts with retryable
\* outcomes of which the third received a retryable status code, the error
\* states the attempt count 3 and the status of the third attempt; when the
\* third attempt timed out or lost the connection the error is "Request
\* timed out" or "Connection error" and states neither.
C13_ExhaustionMessage ==
    (/\ op = "post_text" /\ pc = "done" /\ Len(calls) = 3
     /\ \A i \in 1 .. 3 : RetryableOutcome(calls[i]))
        => /\ result.status = "failed"
           /\ RetryableResponse(calls[3]) =>
                 /\ result.error.attempts = 3
                 /\ result.error.status = calls[3].resp.status_code
           /\ calls[3].resp.exc = "Timeout" =>
                 result.error = [msg |-> "Request timed out", attempts |-> NoCode,
                                 status |-> NoCode]
           /\ calls[3].resp.exc = "ConnectionError" =>
                 result.error = [msg |-> "Connection error", attempts |-> NoCode,
                                 status |-> NoCode]

C13_Witness ==
    /\ op = "post_text" /\ pc = "done" /\ Len(calls) = 3
    /\ calls[1].resp.exc = "Timeout"
    /\ calls[2].resp.exc = "ConnectionError"
    /\ RetryableResponse(calls[3])
    /\ result.error.attempts = 3
    /\ result.error.status = 503

-----------------------------------------------------------------------------
(* Properties of the classification of outcomes and of the transfer loop *)

\* C14 as stated: in post_text an HTTP 200 response whose body is not JSON
\* is the last call, no sleep follows it and the result is failed; and a
\* call is followed by another only after a retryable status, a timeout or a
\* connection error.
C14_MalformedNotRetried ==
    op = "post_text" =>
        /\ \A k \in 1 .. Len(calls) :
              (Returned200(calls[k]) /\ calls[k].resp.body.shape = "unparseable")
                 => /\ k = Len(calls)
                    /\ pc = "done"
                    /\ result.status = "failed"
                    /\ \A j \in 1 .. Len(sleeps) : sleeps[j].after < k
        /\ \A k \in 1 .. Len(sleeps) : RetryableOutcome(calls[sleeps[k].after])

\* C15 as stated: the offsets the transfer calls of one post_video session
\* are tagged with (current_offset at each call) never decrease, and neither
\* does current_offset after the last of them.
C15_OffsetMonotonic ==
    op = "post_video" =>
        /\ \A i, j \in CallsOf("transfer") :
              i < j => calls[i].start_offset <= calls[j].start_offset
        /\ \A i \in CallsOf("transfer") :
              (Returned200(calls[i]) /\ pc # "done") => calls[i].start_offset <= current_offset

\* the server answered the transfer call with a next offset that does not
\* advance past the offset the call was tagged with
NotAdvancing(c) ==
    /\ c.phase = "transfer"
    /\ Returned200(c)
    /\ c.resp.body.shape \in {"obj", "objBadError"}
    /\ c.resp.body.start_offset # NoCode
    /\ c.resp.body.start_offset <= c.start_offset

\* C16 as stated: a transfer call of post_video whose server-reported next
\* offset does not advance past the current offset is the last HTTP call of
\* the session (no further transfer, no finish) and the result is failed.
C16_StallAborts ==
    \A k \in 1 .. Len(calls) :
        (op = "post_video" /\ NotAdvancing(calls[k]))
            => /\ k = Len(calls)
               /\ pc = "done"
               /\ result.status = "failed"

-----------------------------------------------------------------------------
(* Termination *)

\* an upper bound of the number of HTTP calls the invocation can still make
Remaining ==
    CASE pc = "text_call" -> max_retries - attempt
      [] pc = "image_call" -> 1
      [] pc = "video_start" -> file_size + max_checks + 2
      [] pc = "video_transfer" -> (file_size - file_pos) + max_checks + 1
      [] pc = "video_finish" -> max_checks + 1
      [] pc = "video_poll" -> max_checks - check_num
      [] OTHER -> 0

\* C17: post_text, post_image and post_video always terminate with a dict
\* whose status is success or failed, whatever the HTTP calls return or
\* raise: a running invocation can always take a step, every step of it
\* lowers the bound Remaining, which is 0 only once it has returned, and a
\* returned invocation holds a dict with status success or failed.
C17_AlwaysReturns ==
    /\ [](pc = "done" => result.status \in {"success", "failed"})
    /\ [](pc \notin {"idle", "done"} => Remaining > 0 /\ ENABLED Next)
    /\ [][pc \notin {"idle", "done"} => Remaining' < Remaining]_vars
    /\ [][pc = "idle" => pc' \in {"done", "text_call", "image_call", "video_start"}]_vars

C17_Witness ==
    /\ op = "post_video" /\ pc = "done"
    /\ response.exc = "Exception"
    /\ Cardinality(CallsOf("transfer")) = 2
    /\ CallsOf("finish") # {}
    /\ result.status = "failed"
    /\ result.error.msg = "Unexpected error: {e}"

-----------------------------------------------------------------------------
(* Asset rotation: Mode B *)

\* the Tracking Store has a key for the file
HasKey(p) ==
    /\ tracking_file.state = "ok"
    /\ tracking_file.data[p.rel] # NoStamp

\* a timestamp of fixed width read as a number: the later, the larger
StampValue(stamp) == stamp[1] * (MaxDigit + 1) + stamp[2]

\* C18: in Mode B, if at least one enumerated asset has no key in the
\* Tracking Store, the returned asset is one of the never-posted assets,
\* whatever the last_posted timestamps of the posted assets are.
C18_NeverPostedFirst ==
    (/\ selector_pc = "returned"
     /\ \E i \in DOMAIN media : ~ HasKey(media[i]))
        => /\ Len(assets) = 1
           /\ assets[1] \in Range(media)
           /\ ~ HasKey(assets[1])

\* a never-posted file was returned although a posted file precedes it in
\* the enumeration and another posted file has the smallest timestamp
C18_Witness ==
    /\ selector_pc = "returned"
    /\ Len(media) = 3
    /\ HasKey(media[1])
    /\ HasKey(media[2])
    /\ StampValue(tracking_file.data[media[1].rel]) = 0
    /\ StampValue(tracking_file.data[media[2].rel]) > 0
    /\ ~ HasKey(media[3])
    /\ assets = <<media[3]>>

\* C19: in Mode B, if every enumerated asset has a key in the Tracking
\* Store, the returned asset is the one whose last_posted timestamp is the
\* smallest; among assets with equal smallest timestamps the first in
\* enumeration order is returned.
C19_OldestFirst ==
    (/\ selector_pc = "returned"
     /\ media # <<>>
     /\ \A i \in DOMAIN media : HasKey(media[i]))
        => \E i \in DOMAIN media :
               /\ assets = <<media[i]>>
               /\ \A j \in DOMAIN media :
                      /\ StampValue(tracking_file.data[media[i].rel])
                             <= StampValue(tracking_file.data[media[j].rel])
                      /\ j < i => StampValue(tracking_file.data[media[i].rel])
                                     < StampValue(tracking_file.data[media[j].rel])

\* the second of three posted files was returned: the first is younger and
\* the third has the same timestamp, which differs from the first's in its
\* second character only
C19_Witness ==
    /\ selector_pc = "returned"
    /\ Len(media) = 3
    /\ \A i \in DOMAIN media : HasKey(media[i])
    /\ tracking_file.data[media[1].rel] = <<0, 1>>
    /\ tracking_file.data[media[2].rel] = <<0, 0>>
    /\ tracking_file.data[media[3].rel] = <<0, 0>>
    /\ assets = <<media[2]>>

C20_WitnessEmptyPool ==
    /\ selector_pc = "returned"
    /\ media = <<>>
    /\ tracking_file.state = "ok"
    /\ tracking_file.data # EmptyTracking
    /\ assets = <<>>

-----------------------------------------------------------------------------
(* Asset selector: Mode A *)

\* the paths of the SelectionFile as written, images before videos
WrittenPaths == selection_file.images \o selection_file.videos
\* the positions of the written paths that are regular files on disk
RegularFiles == {i \in DOMAIN WrittenPaths : WrittenPaths[i].state = "file"}
\* the n-th of these positions
NthRegularFile(n) ==
    CHOOSE k \in RegularFiles : Cardinality({j \in RegularFiles : j < k}) = n - 1

\* C21: Mode A returns exactly the SelectionFile's paths that exist on disk
\* as regular files, images first then videos, each group in file order,
\* with missing paths dropped without error; a missing or unparseable
\* SelectionFile yields an empty list rather than an error.
C21_ExplicitSelection ==
    selector_pc = "returned"
        => /\ Len(assets) = Cardinality(RegularFiles)
           /\ \A n \in DOMAIN assets : assets[n] = WrittenPaths[NthRegularFile(n)]
           /\ selection_file.state \in {"missing", "malformed"} => assets = <<>>

\* a video and an image were listed with a missing path and a directory:
\* the image is returned before the video
C21_Witness ==
    /\ selector_pc = "returned"
    /\ selection_file.state = "ok"
    /\ Len(selection_file.images) = 2
    /\ Len(selection_file.videos) = 2
    /\ selection_file.images[1].state = "missing"
    /\ selection_file.images[2] = [state |-> "file", suffix |-> ".jpg"]
    /\ selection_file.videos[1] = [state |-> "file", suffix |-> ".MOV"]
    /\ selection_file.videos[2].state = "directory"
    /\ assets = <<selection_file.images[2], selection_file.videos[1]>>

-----------------------------------------------------------------------------
(* Publish Tracking Store *)

\* the keys of a tracking map
Keys(data) == {k \in AssetKeys : data[k] # NoStamp}

C23_StoreNeverRaises ==
    /\ store_pc = "loaded"
           => /\ ~ loaded.raised
              /\ tracking_file.state \in {"missing", "malformed", "unreadable"}
                     => Keys(loaded.returned) = {}
              /\ tracking_file.state = "missing" => ~ loaded.json_load_called
    /\ saved.outcome # "none"
           => /\ ~ saved.raised
              /\ saved.mkdir_called
              /\ saved.outcome # "mkdir_fails" => parent_dir

\* a save whose json.dump failed returned, and the load that followed
\* returned the empty map for the truncated file
C23_Witness ==
    /\ store_pc = "loaded"
    /\ saved.outcome = "dump_fails"
    /\ Keys(saved.data) # {}
    /\ ~ saved.raised
    /\ tracking_file.state = "malformed"
    /\ loaded.json_load_called
    /\ ~ loaded.raised
    /\ Keys(loaded.returned) = {}

-----------------------------------------------------------------------------
(* Publish cycle *)

\* the records of a store file: none if it is missing or unusable
Records(file) == IF file.state = "ok" THEN file.data ELSE EmptyTracking

\* C24: in a publish cycle the Tracking Store entry of an asset is written
\* (key = path relative to the project root, last_posted = current time)
\* only after the publish call for that asset returned status success; when
\* the publish call returns failed, the asset's record and every other
\* record in the store are left unchanged.
C24_RecordOnlyAfterSuccess ==
    /\ [](\A p \in Procs :
             cycle[p].pc \in {"load", "save"} => cycle[p].status = "success")
    /\ [][tracking_file' # tracking_file
             => \E p \in Procs :
                    /\ cycle[p].pc = "save"
                    /\ cycle[p].status = "success"
                    /\ cycle[p].stamp = isoformat(clock - 1)
                    /\ tracking_file'.state = "ok"
                           => tracking_file'.data[cycle[p].asset.rel] = cycle[p].stamp]_vars
    /\ [][\A p \in Procs :
             (cycle[p].pc = "publish" /\ cycle'[p].status = "failed")
                 => /\ cycle'[p].pc = "done"
                    /\ Records(tracking_file') = Records(tracking_file)]_vars

\* a publish of an asset failed and left the store as it was, so the next
\* cycle selected the asset again; its publish succeeded and its record was
\* written beside the record of another asset
C24_Witness ==
    /\ Len(history) = 2
    /\ history[1].status = "failed"
    /\ history[2].status = "success"
    /\ history[2].recorded
    /\ history[2].asset = history[1].asset
    /\ tracking_file.state = "ok"
    /\ tracking_file.data[history[2].asset.rel] = isoformat(1)
    /\ \E k \in AssetKeys : tracking_file.data[k] = SeedStamp

\* C25: because each publish cycle loads the whole Tracking Store, adds its
\* entry and rewrites the whole file without locking, two concurrently
\* running cycles that publish different assets can interleave so that the
\* later writer's save overwrites the earlier one and the earlier cycle's
\* entry is absent from the final store: a save leaves in the file the map
\* its process loaded plus its own entry, whatever was written since.
C25_LaterSaveOverwrites ==
    [][\A p \in Procs :
          (/\ cycle[p].pc = "save"
           /\ cycle'[p].pc = "done"
           /\ tracking_file'.state = "ok"
           /\ tracking_file' # tracking_file)
              => /\ tracking_file'.data = cycle[p].tracking
                 /\ \A k \in AssetKeys :
                        (/\ Records(tracking_file)[k] # NoStamp
                         /\ cycle[p].tracking[k] = NoStamp)
                            => tracking_file'.data[k] = NoStamp]_vars

\* the lost update: two processes published different assets and both
\* saved, and the store has no entry for the asset saved first
C25_Witness ==
    /\ Len(history) = 2
    /\ history[1].proc # history[2].proc
    /\ history[1].asset # history[2].asset
    /\ history[1].recorded
    /\ history[2].recorded
    /\ tracking_file.state = "ok"
    /\ tracking_file.data[history[1].asset.rel] = NoStamp
    /\ tracking_file.data[history[2].asset.rel] = history[2].stamp

\* every cycle so far published with success
AllPublished == \A i \in DOMAIN history : history[i].status = "success"
\* every cycle so far recorded its timestamp, each later than the one before
AllRecorded ==
    /\ \A i \in DOMAIN history : history[i].recorded
    /\ \A i, j \in DOMAIN history :
           i < j => StampValue(history[i].stamp) < StampValue(history[j].stamp)

\* between two selections of an asset every other asset of the pool is
\* selected, and any N consecutive cycles publish each of the N assets
RoundRobin ==
    /\ \A i, j \in DOMAIN history :
           (i < j /\ history[i].asset = history[j].asset)
               => \A a \in Range(media) \ {history[i].asset} :
                      \E k \in (i + 1) .. (j - 1) : history[k].asset = a
    /\ \A i \in DOMAIN history :
           (Len(media) > 0 /\ i + Len(media) - 1 <= Len(history))
               => {history[k].asset : k \in i .. (i + Len(media) - 1)} = Range(media)

-----------------------------------------------------------------------------
(* The chunks of post_video *)

\* C26 as stated: in every post_video transfer call, the chunk sent is the
\* file's bytes beginning at the offset the call is tagged with
\* (start_offset = current_offset), including when the server's initial
\* start_offset is non-zero or a server-reported next offset differs from
\* the previous offset plus the chunk length.
C26_ChunkAtTaggedOffset ==
    op = "post_video"
        => \A i \in CallsOf("transfer") : calls[i].pos = calls[i].start_offset

\* the chunks a file of the given size is read in
CeilDiv(n, d) == (n + d - 1) \div d

\* C27: the post_video transfer loop terminates for every sequence of
\* server responses: it issues at most ceil(file_size / chunk_size) transfer
\* calls, because each iteration consumes the next sequential chunk of the
\* file and the loop exits when the file is exhausted even if the
\* server-reported offset never reaches file_size.
C27_TransferLoopBounded ==
    op = "post_video"
        => /\ Cardinality(CallsOf("transfer")) <= CeilDiv(file_size, chunk_size)
           /\ \A i \in CallsOf("transfer") :
                  /\ calls[i].len > 0
                  /\ calls[i].pos = chunk_size * Cardinality({j \in CallsOf("transfer") : j < i})
           /\ pc = "video_transfer"
                  => /\ file_pos < file_size
                     /\ Cardinality(CallsOf("transfer")) < CeilDiv(file_size, chunk_size)

\* the whole file was sent in two chunks and the finish call issued although
\* the server never reported an offset that reached file_size
C27_Witness ==
    /\ op = "post_video"
    /\ file_size = 3
    /\ Cardinality(CallsOf("transfer")) = 2
    /\ CallsOf("finish") # {}
    /\ current_offset < file_size
    /\ \A i \in CallsOf("transfer") :
           Returned200(calls[i]) /\ calls[i].resp.body.start_offset = 0

-----------------------------------------------------------------------------
(* Scheduler *)

\* C29 as stated: a scheduler job of type once is run at most once: after
\* run_task has executed it and set executed=True it is never run again,
\* neither by the running scheduler loop on a later day nor after the
\* scheduler is restarted from the saved schedule file; a once job loaded
\* with executed=True is never scheduled.
C29_OnceRunsOnce ==
    /\ \A i, j \in DOMAIN runs :
           (/\ i < j
            /\ runs[i].type = "once"
            /\ runs[i].marked)
               => runs[j].job # runs[i].job
    /\ \A i \in DOMAIN runs : runs[i].type = "once" => ~ runs[i].executed
    /\ \A k \in registered :
           (/\ jobs[k].type = "once"
            /\ schedule_file.state = "ok"
            /\ k \in DOMAIN schedule_file.jobs)
               => ~ schedule_file.jobs[k].executed

-----------------------------------------------------------------------------
(* Orchestrator *)

\* the command function reported success: True, or the integer 0
Succeeded(value) ==
    \/ value.kind = "bool" /\ value.b
    \/ value.kind = "int" /\ value.n = 0

\* C30 as stated: Orchestrator.execute_command returns exit code 0 if and
\* only if the dispatched command succeeded: a command returning True or
\* integer 0 gives 0, and a command returning False or a non-zero integer
\* code gives a non-zero exit code, which is also the value recorded as
\* last_exit_code in the project context.
C30_ExitCodeIffSuccess ==
    (orch_pc = "done" /\ command \in Commands)
        => /\ exit_code = 0 <=> Succeeded(cmd_result)
           /\ context.last_exit_code = exit_code
           /\ context.last_operation = command

=============================================================================
